---- MODULE Spec2Model ----
(***************************************************************************)
(* The goal family of lib/goals.js: positional goals, combinators, the     *)
(* follow goal and the block placement goal, as objects on a heap that the *)
(* search engine queries through heuristic / isEnd / hasChanged.           *)
(*                                                                         *)
(* Numbers.  Block coordinates are integers.  Entity positions and the     *)
(* arguments of the constructors are kept in half blocks (2 = one block),  *)
(* so that Math.floor has something to round.  Points of the placement     *)
(* goal (eye positions, face centres) are kept in tenths of a block.       *)
(* A heuristic value is the exact real a + b*sqrt(2), extended with the    *)
(* two IEEE constants the composites start from: e counts Number.MIN_VALUE *)
(* (the smallest positive double) and m counts Number.MAX_VALUE.  The      *)
(* values met here are far apart compared with a double's precision, so    *)
(* the exact order is the order Math.min and Math.max see; norms and       *)
(* angles are compared exactly (squared lengths, signs of coordinates).    *)
(*                                                                         *)
(* A call is one step: the action computes the whole method, children      *)
(* included, and leaves its return value in ret; Return hands it to the    *)
(* caller.  The code is single threaded, so nothing else happens while a   *)
(* return value is pending.                                                *)
(***************************************************************************)
EXTENDS Integers, Sequences, FiniteSets, TLC

\* ---------------------------------------------------------------- bounds
\* nodes the search engine asks about: block coordinates in -MaxNode..MaxNode
MaxNode == 2
\* entity coordinates, in half blocks, stay in -MaxHalf..MaxHalf
MaxHalf == 2
\* ranges of GoalNear / GoalFollow are 0..MaxRange blocks
MaxRange == 1
\* a composite holds at most MaxChildren goals
MaxChildren == 2
\* constructor arguments of the positional goals, in half blocks, are in
\* -MaxTarget..MaxTarget
MaxTarget == 1
\* at most MaxGoals placement goals are built from one options object
MaxGoals == 2
\* direction vectors handed to checkFacing have coordinates in -MaxDir..MaxDir
MaxDir == 2
\* eye positions belong to nodes with coordinates in -MaxEye..MaxEye
MaxEye == 1

VARIABLES
  entities,   \* entity id -> position <<x, y, z>> in half blocks
  goals,      \* the heap of goal objects: goal id -> object
  options,    \* the heap of options objects of the placement goals
  world,      \* the set of block positions that hold a full cube
  ret         \* the call in progress and its return value

vars == <<entities, goals, options, world, ret>>

\* ------------------------------------------------------------ arithmetic
Abs(n) == IF n < 0 THEN -n ELSE n

Min2(a, b) == IF a < b THEN a ELSE b

\* Math.floor of a coordinate given in half blocks
Floor(h) == h \div 2

floored(p) == <<Floor(p[1]), Floor(p[2]), Floor(p[3])>>

Num(a, b) == [a |-> a, b |-> b, e |-> 0, m |-> 0]

MIN_VALUE == [a |-> 0, b |-> 0, e |-> 1, m |-> 0]

MAX_VALUE == [a |-> 0, b |-> 0, e |-> 0, m |-> 1]

Neg(v) == [a |-> -v.a, b |-> -v.b, e |-> -v.e, m |-> -v.m]

\* the sign of a + b*sqrt(2)
SignRoot(a, b) ==
  IF a = 0 /\ b = 0 THEN 0
  ELSE IF a >= 0 /\ b >= 0 THEN 1
  ELSE IF a <= 0 /\ b <= 0 THEN -1
  ELSE IF a > 0 THEN (IF a * a > 2 * b * b THEN 1 ELSE -1)
  ELSE (IF 2 * b * b > a * a THEN 1 ELSE -1)

Less(u, v) ==
  IF u.m # v.m THEN u.m < v.m
  ELSE LET s == SignRoot(v.a - u.a, v.b - u.b)
       IN  IF s # 0 THEN s > 0 ELSE u.e < v.e

MathMin(u, v) == IF Less(v, u) THEN v ELSE u

MathMax(u, v) == IF Less(u, v) THEN v ELSE u

distanceXZ(dx, dz) ==
  LET ax == Abs(dx)
      az == Abs(dz)
  IN  Num(Abs(ax - az), Min2(ax, az))

PlusInt(v, n) == [v EXCEPT !.a = @ + n]

\* dy < 0 ? dy + 1 : dy
AdjustDy(dy) == IF dy < 0 THEN dy + 1 ELSE dy

\* ------------------------------------------------------------ goal objects
Goal ==
  [tag |-> "Goal", x |-> 0, y |-> 0, z |-> 0, rangeSq |-> 0, entity |-> 0,
   goals |-> <<>>, goal |-> 0, options |-> 0, facesPos |-> <<>>]

GoalBlock(x, y, z) ==
  [Goal EXCEPT !.tag = "GoalBlock", !.x = Floor(x), !.y = Floor(y), !.z = Floor(z)]

GoalNear(x, y, z, range) ==
  [Goal EXCEPT !.tag = "GoalNear", !.x = Floor(x), !.y = Floor(y), !.z = Floor(z),
               !.rangeSq = range * range]

GoalXZ(x, z) == [Goal EXCEPT !.tag = "GoalXZ", !.x = Floor(x), !.z = Floor(z)]

GoalY(y) == [Goal EXCEPT !.tag = "GoalY", !.y = Floor(y)]

GoalGetToBlock(x, y, z) ==
  [Goal EXCEPT !.tag = "GoalGetToBlock", !.x = Floor(x), !.y = Floor(y), !.z = Floor(z)]

GoalCompositeAny == [Goal EXCEPT !.tag = "GoalCompositeAny"]

GoalCompositeAll == [Goal EXCEPT !.tag = "GoalCompositeAll"]

GoalInvert(goal) == [Goal EXCEPT !.tag = "GoalInvert", !.goal = goal]

\* entity is the entity's id, position its position when the goal is built
GoalFollow(entity, position, range) ==
  [Goal EXCEPT !.tag = "GoalFollow", !.entity = entity,
               !.x = Floor(position[1]), !.y = Floor(position[2]),
               !.z = Floor(position[3]), !.rangeSq = range * range]

Positional == {"GoalBlock", "GoalNear", "GoalXZ", "GoalY", "GoalGetToBlock"}

Composite == {"GoalCompositeAny", "GoalCompositeAll"}

\* ------------------------------------------------------- placement goal
Plus(u, v) == <<u[1] + v[1], u[2] + v[2], u[3] + v[3]>>

Minus(u, v) == <<u[1] - v[1], u[2] - v[2], u[3] - v[3]>>

Scaled(v, k) == <<v[1] * k, v[2] * k, v[3] * k>>

NormSq(v) == v[1] * v[1] + v[2] * v[2] + v[3] * v[3]

\* a value of options.facing: a string, a number, or undefined
Str(s) == [k |-> "string", s |-> s, n |-> 0]

Number(n) == [k |-> "number", s |-> "", n |-> n]

Undefined == [k |-> "undefined", s |-> "", n |-> 0]

FacingNames == <<"north", "east", "south", "west", "up", "down">>

\* ['north', 'east', 'south', 'west', 'up', 'down'].indexOf(v): strict equality,
\* so only a string of the list is found
IndexOf(v) ==
  IF v.k = "string" /\ \E i \in 1..Len(FacingNames) : FacingNames[i] = v.s
  THEN (CHOOSE i \in 1..Len(FacingNames) : FacingNames[i] = v.s) - 1
  ELSE -1

DefaultRange == 5

DefaultFaces ==
  << <<0, -1, 0>>, <<0, 1, 0>>, <<0, 0, -1>>, <<0, 0, 1>>, <<-1, 0, 0>>, <<1, 0, 0>> >>

\* an options object: range 0 stands for a missing (falsy) range, LOS is
\* "absent", "true" or "false", hasFaces tells whether faces was given
Options(range, LOS, hasFaces, faces, facing, facing3D) ==
  [range |-> range, LOS |-> LOS, hasFaces |-> hasFaces, faces |-> faces,
   facing |-> facing, facing3D |-> facing3D]

\* what the constructor leaves in the options object it was given
ConstructorOptions(opt) ==
  [opt EXCEPT !.range = IF opt.range = 0 THEN DefaultRange ELSE opt.range,
              !.LOS = IF opt.LOS = "absent" THEN "true" ELSE opt.LOS,
              !.hasFaces = TRUE,
              !.faces = IF opt.hasFaces THEN opt.faces ELSE DefaultFaces,
              !.facing = Number(IndexOf(opt.facing))]

\* getShapeFaceCenters(world.getBlock(ref).shapes, normal, half), in tenths of
\* a block from the block's min corner: a full cube has one centre on the face
\* with that normal, an empty block has no shape and no centre
getShapeFaceCenters(w, ref, normal) ==
  IF ref \in w THEN << Plus(<<5, 5, 5>>, Scaled(normal, 5)) >> ELSE <<>>

RECURSIVE FacesPos(_, _, _, _)
FacesPos(w, pos, faces, i) ==
  IF i > Len(faces) THEN <<>>
  ELSE LET dir == faces[i]
           ref == Plus(pos, dir)
           centers == getShapeFaceCenters(w, ref, Scaled(dir, -1))
       IN  [k \in 1..Len(centers) |->
              [dir |-> dir, to |-> Plus(centers[k], Scaled(ref, 10)), ref |-> ref]]
           \o FacesPos(w, pos, faces, i + 1)

\* new GoalPlaceBlock(pos, world, options): pos in half blocks, o the id of
\* the options object, opt that object as the constructor leaves it; this.pos
\* is kept in x, y, z, and options.half is left unset
GoalPlaceBlock(pos, w, o, opt) ==
  [Goal EXCEPT !.tag = "GoalPlaceBlock",
               !.x = Floor(pos[1]), !.y = Floor(pos[2]), !.z = Floor(pos[3]),
               !.options = o,
               !.facesPos = FacesPos(w, floored(pos), opt.faces, 1)]

vectorToDirectionNoFlip(v) ==
  IF v[2] < 0 THEN 1
  ELSE IF v[2] > 0 THEN 0
  ELSE IF v[3] < 0 THEN 3
  ELSE IF v[3] > 0 THEN 2
  ELSE IF v[1] < 0 THEN 5
  ELSE IF v[1] > 0 THEN 4
  ELSE -1

\* -1 stands for undefined (no branch taken)
vectorToDirection(v) ==
  IF v[2] < 0 THEN 0
  ELSE IF v[2] > 0 THEN 1
  ELSE IF v[3] < 0 THEN 2
  ELSE IF v[3] > 0 THEN 3
  ELSE IF v[1] < 0 THEN 4
  ELSE IF v[1] > 0 THEN 5
  ELSE -1

\* Math.floor(angle / 90 + 0.5) & 0x3 for angle = atan2(x, -z) in degrees + 180:
\* with a = x and b = -z the bearing atan2(a, b) lies in [-45, 45) for bucket 2,
\* in [45, 135) for bucket 3, in [-135, -45) for bucket 1 and beyond +-135 for
\* bucket 0; -z of a zero z is -0, which atan2 puts at +-180 (bucket 0)
HorizontalBucket(x, z) ==
  LET a == x
      b == -z
  IN  IF b > 0 /\ -b <= a /\ a < b THEN 2
      ELSE IF a > 0 /\ -a < b /\ b <= a THEN 3
      ELSE IF a < 0 /\ a <= b /\ b < -a THEN 1
      ELSE 0

\* checkFacing(dir) of a goal whose options object is opt
checkFacing(opt, dir) ==
  IF opt.facing.n < 0 THEN TRUE
  ELSE LET dHSq == dir[1] * dir[1] + dir[3] * dir[3]
           steepUp == dir[2] > 0 /\ dir[2] * dir[2] > dHSq
           steepDown == dir[2] < 0 /\ dir[2] * dir[2] > dHSq
       IN  IF opt.facing3D /\ steepUp THEN opt.facing.n = 4
           ELSE IF opt.facing3D /\ steepDown THEN opt.facing.n = 5
           ELSE opt.facing.n = HorizontalBucket(dir[1], dir[3])

\* what world.raycast may answer: nothing, or a block and the face it was hit on
NoHit == [hit |-> FALSE, position |-> <<0, 0, 0>>, face |-> 0]

Null == [found |-> FALSE, face |-> <<0, 0, 0>>, to |-> <<0, 0, 0>>, ref |-> <<0, 0, 0>>]

Found(c) == [found |-> TRUE, face |-> c.dir, to |-> c.to, ref |-> c.ref]

\* hits[i] is the answer of world.raycast(headPos, dir.normalize(), range) for
\* the i-th candidate
RECURSIVE getFaceAndRef(_, _, _, _, _)
getFaceAndRef(opt, facesPos, headPos, hits, i) ==
  IF i > Len(facesPos) THEN Null
  ELSE LET c == facesPos[i]
           dir == Minus(c.to, headPos)
           block == hits[i]
       IN  IF NormSq(dir) > 100 * opt.range * opt.range
             THEN getFaceAndRef(opt, facesPos, headPos, hits, i + 1)
           ELSE IF ~checkFacing(opt, dir)
             THEN getFaceAndRef(opt, facesPos, headPos, hits, i + 1)
           ELSE IF opt.LOS # "true" THEN Found(c)
           ELSE IF block.hit /\ block.position = c.ref
                   /\ block.face = vectorToDirection(Scaled(c.dir, -1))
             THEN Found(c)
           ELSE getFaceAndRef(opt, facesPos, headPos, hits, i + 1)

\* node.offset(0.5, 1.6, 0.5), in tenths of a block
HeadPos(node) == <<10 * node[1] + 5, 10 * node[2] + 16, 10 * node[3] + 5>>

isStandingIn(g, node) ==
  LET dx == node[1] - g.x
      dy == node[2] - g.y
      dz == node[3] - g.z
  IN  Abs(dx) + Abs(AdjustDy(dy)) + Abs(dz) < 1

\* ----------------------------------------------------------- the methods
\* heuristic(node) of goal g on heap h
RECURSIVE heuristic(_, _, _)
RECURSIVE MinLoop(_, _, _, _, _)
RECURSIVE MaxLoop(_, _, _, _, _)

\* for (const i in this.goals) min = Math.min(min, this.goals[i].heuristic(node))
MinLoop(h, gs, i, node, min) ==
  IF i > Len(gs) THEN min
  ELSE MinLoop(h, gs, i + 1, node, MathMin(min, heuristic(h, gs[i], node)))

\* for (const i in this.goals) max = Math.max(max, this.goals[i].heuristic(node))
MaxLoop(h, gs, i, node, max) ==
  IF i > Len(gs) THEN max
  ELSE MaxLoop(h, gs, i + 1, node, MathMax(max, heuristic(h, gs[i], node)))

\* GoalBlock, GoalNear and GoalFollow share this body
GoalNear_heuristic(g, node) ==
  LET dx == g.x - node[1]
      dy == g.y - node[2]
      dz == g.z - node[3]
  IN  PlusInt(distanceXZ(dx, dz), Abs(dy))

\* GoalGetToBlock and GoalPlaceBlock share this body
GoalGetToBlock_heuristic(g, node) ==
  LET dx == node[1] - g.x
      dy == node[2] - g.y
      dz == node[3] - g.z
  IN  PlusInt(distanceXZ(dx, dz), Abs(AdjustDy(dy)))

GoalCompositeAll_heuristic(h, g, node) ==
  MaxLoop(h, g.goals, 1, node, MIN_VALUE)

heuristic(h, id, node) ==
  LET g == h[id]
  IN  CASE g.tag \in {"GoalBlock", "GoalNear", "GoalFollow"} ->
             GoalNear_heuristic(g, node)
        [] g.tag = "GoalXZ" -> distanceXZ(g.x - node[1], g.z - node[3])
        [] g.tag = "GoalY" -> Num(Abs(g.y - node[2]), 0)
        [] g.tag \in {"GoalGetToBlock", "GoalPlaceBlock"} ->
             GoalGetToBlock_heuristic(g, node)
        [] g.tag = "GoalCompositeAny" -> MinLoop(h, g.goals, 1, node, MAX_VALUE)
        [] g.tag = "GoalCompositeAll" -> GoalCompositeAll_heuristic(h, g, node)
        [] g.tag = "GoalInvert" -> Neg(heuristic(h, g.goal, node))
        [] OTHER -> Num(0, 0)

GoalGetToBlock_isEndFaces(g, node) ==
  LET dx == node[1] - g.x
      dy == node[2] - g.y
      dz == node[3] - g.z
  IN  Abs(dx) + Abs(dy) + Abs(dz) = 1

GoalGetToBlock_isEnd(g, node) ==
  LET dx == node[1] - g.x
      dy == node[2] - g.y
      dz == node[3] - g.z
  IN  Abs(dx) + Abs(AdjustDy(dy)) + Abs(dz) = 1

\* GoalNear and GoalFollow share this body
GoalNear_isEnd(g, node) ==
  LET dx == g.x - node[1]
      dy == g.y - node[2]
      dz == g.z - node[3]
  IN  dx * dx + dy * dy + dz * dz <= g.rangeSq

\* isEnd(node) of goal g on heap h with options heap o; hits are the answers
\* world.raycast gives to a placement goal for this node's eye position
RECURSIVE isEnd(_, _, _, _, _)
isEnd(h, o, id, node, hits) ==
  LET g == h[id]
  IN  CASE g.tag = "GoalBlock" -> node[1] = g.x /\ node[2] = g.y /\ node[3] = g.z
        [] g.tag \in {"GoalNear", "GoalFollow"} -> GoalNear_isEnd(g, node)
        [] g.tag = "GoalXZ" -> node[1] = g.x /\ node[3] = g.z
        [] g.tag = "GoalY" -> node[2] = g.y
        [] g.tag = "GoalGetToBlock" -> GoalGetToBlock_isEnd(g, node)
        [] g.tag = "GoalCompositeAny" ->
             \E i \in 1..Len(g.goals) : isEnd(h, o, g.goals[i], node, hits)
        [] g.tag = "GoalCompositeAll" ->
             \A i \in 1..Len(g.goals) : isEnd(h, o, g.goals[i], node, hits)
        [] g.tag = "GoalInvert" -> ~isEnd(h, o, g.goal, node, hits)
        [] g.tag = "GoalPlaceBlock" ->
             IF isStandingIn(g, node) THEN FALSE
             ELSE getFaceAndRef(o[g.options], g.facesPos, HeadPos(node), hits, 1).found
        [] OTHER -> TRUE

FollowLeftInclusive(g, ents) ==
  LET p == floored(ents[g.entity])
      dx == g.x - p[1]
      dy == g.y - p[2]
      dz == g.z - p[3]
  IN  dx * dx + dy * dy + dz * dz >= g.rangeSq

\* the condition under which GoalFollow.hasChanged re-targets
FollowLeft(g, ents) ==
  LET p == floored(ents[g.entity])
      dx == g.x - p[1]
      dy == g.y - p[2]
      dz == g.z - p[3]
  IN  dx * dx + dy * dy + dz * dz > g.rangeSq

GoalFollow_hasChangedKeepsTarget(h, ents, id) ==
  [goals |-> h, result |-> FollowLeft(h[id], ents)]

GoalFollow_hasChangedAlwaysTargets(h, ents, id) ==
  LET p == floored(ents[h[id].entity])
  IN  [goals |-> [h EXCEPT ![id].x = p[1], ![id].y = p[2], ![id].z = p[3]],
       result |-> FollowLeft(h[id], ents)]

\* GoalFollow.hasChanged: the heap it leaves and the value it returns
GoalFollow_hasChanged(h, ents, id) ==
  LET g == h[id]
      p == floored(ents[g.entity])
  IN  IF FollowLeft(g, ents)
      THEN [goals |-> [h EXCEPT ![id].x = p[1], ![id].y = p[2], ![id].z = p[3]],
            result |-> TRUE]
      ELSE [goals |-> h, result |-> FALSE]

\* hasChanged() of goal id: the heap it leaves and the value it returns
RECURSIVE hasChanged(_, _, _)
RECURSIVE ChangedLoop(_, _, _, _)

\* for (const i in this.goals) if (this.goals[i].hasChanged()) return true
ChangedLoop(h, ents, gs, i) ==
  IF i > Len(gs) THEN [goals |-> h, result |-> FALSE]
  ELSE LET r == hasChanged(h, ents, gs[i])
       IN  IF r.result THEN r ELSE ChangedLoop(r.goals, ents, gs, i + 1)

hasChanged(h, ents, id) ==
  LET g == h[id]
  IN  CASE g.tag = "GoalFollow" -> GoalFollow_hasChanged(h, ents, id)
        [] g.tag \in Composite -> ChangedLoop(h, ents, g.goals, 1)
        [] g.tag = "GoalInvert" -> hasChanged(h, ents, g.goal)
        [] OTHER -> [goals |-> h, result |-> FALSE]

\* ------------------------------------------------------------ the calls
None ==
  [op |-> "none", goal |-> 0, node |-> <<0, 0, 0>>, hits |-> <<>>, result |-> FALSE]

Nodes == (-MaxNode..MaxNode) \X (-MaxNode..MaxNode) \X (-MaxNode..MaxNode)

Ids == DOMAIN goals

\* the search engine asks goal id for its estimate at node
Heuristic(id, node) ==
  /\ ret.op = "none"
  /\ ret' = [op |-> "heuristic", goal |-> id, node |-> node, hits |-> <<>>,
             result |-> heuristic(goals, id, node)]
  /\ UNCHANGED <<entities, goals, options, world>>

\* the search engine asks goal id whether node ends the search
IsEnd(id, node, hits) ==
  /\ ret.op = "none"
  /\ ret' = [op |-> "isEnd", goal |-> id, node |-> node, hits |-> hits,
             result |-> isEnd(goals, options, id, node, hits)]
  /\ UNCHANGED <<entities, goals, options, world>>

\* the search engine asks goal id whether the path must be computed again
HasChanged(id) ==
  /\ ret.op = "none"
  /\ LET r == hasChanged(goals, entities, id)
     IN  /\ goals' = r.goals
         /\ ret' = [op |-> "hasChanged", goal |-> id, node |-> <<0, 0, 0>>,
                    hits |-> <<>>, result |-> r.result]
  /\ UNCHANGED <<entities, options, world>>

\* the caller takes the return value
Return ==
  /\ ret.op # "none"
  /\ ret' = None
  /\ UNCHANGED <<entities, goals, options, world>>

\* composite.push(goal); the children are goals built before the composite,
\* which keeps the tree acyclic
Push(c, id) ==
  /\ ret.op = "none"
  /\ goals[c].tag \in Composite
  /\ id < c
  /\ Len(goals[c].goals) < MaxChildren
  /\ goals' = [goals EXCEPT ![c].goals = Append(@, id)]
  /\ UNCHANGED <<entities, options, world, ret>>

Axis(k) == [i \in 1..3 |-> IF i = k THEN 1 ELSE 0]

\* an entity moves half a block along one axis
MoveEntity(e, k, d) ==
  /\ ret.op = "none"
  /\ LET p == Plus(entities[e], Scaled(Axis(k), d))
     IN  /\ \A i \in 1..3 : p[i] \in -MaxHalf..MaxHalf
         /\ entities' = [entities EXCEPT ![e] = p]
  /\ UNCHANGED <<goals, options, world, ret>>

\* =============================================================== SpecFollow
\* One GoalFollow bound to one entity that moves about; the driver polls
\* hasChanged.
Halves == -MaxHalf..MaxHalf

InitFollow ==
  /\ \E p \in Halves \X Halves \X Halves, range \in 0..MaxRange :
       /\ entities = <<p>>
       /\ goals = <<GoalFollow(1, p, range)>>
  /\ options = <<>>
  /\ world = {}
  /\ ret = None

MoveAny ==
  /\ ret.op = "none"
  /\ \E e \in DOMAIN entities, k \in 1..3, d \in {-1, 1} : MoveEntity(e, k, d)

PollAny ==
  /\ ret.op = "none"
  /\ \E id \in Ids : HasChanged(id)

NextFollow == MoveAny \/ PollAny \/ Return

SpecFollow == InitFollow /\ [][NextFollow]_vars

Target(g) == <<g.x, g.y, g.z>>

\* a step in which hasChanged of a GoalFollow is called and returns
FollowCall ==
  /\ ret.op = "none"
  /\ ret'.op = "hasChanged"
  /\ goals[ret'.goal].tag = "GoalFollow"

\* C1: hasChanged of a GoalFollow returns true exactly when the squared
\* distance between the entity's floored position and the captured target
\* exceeds rangeSq; a true call leaves the target at that floored position, a
\* false call leaves it alone; and a further call with no movement in between
\* returns false.
C1_HasChangedContract ==
  [][FollowCall =>
       LET id == ret'.goal
           g == goals[id]
           p == floored(entities[g.entity])
           left == NormSq(Minus(Target(g), p)) > g.rangeSq
       IN  /\ ret'.result = left
           /\ Target(goals'[id]) = (IF left THEN p ELSE Target(g))
           /\ goals'[id].rangeSq = g.rangeSq
           /\ hasChanged(goals', entities', id).result = FALSE]_vars

C1_Witness ==
  /\ ret.op = "hasChanged"
  /\ goals[ret.goal].tag = "GoalFollow"
  /\ ret.result = TRUE
  /\ goals[ret.goal].rangeSq = 1
  /\ Target(goals[ret.goal]) = <<1, -1, 0>>

\* four times the squared distance, in blocks, between the entity's actual
\* position and the captured target
ActualDistSq4(g, ents) == NormSq(Minus(ents[g.entity], Scaled(Target(g), 2)))

\* C2 as stated: whenever the entity's actual distance from the captured target
\* is greater than the range, the next hasChanged returns true and re-targets.
C2_SignalsEveryDeparture ==
  [][FollowCall =>
       LET id == ret'.goal
           g == goals[id]
       IN  ActualDistSq4(g, entities) > 4 * g.rangeSq =>
             /\ ret'.result = TRUE
             /\ Target(goals'[id]) = floored(entities[g.entity])]_vars

\* C2 amended: whenever the entity's floored (block) position is farther than
\* the range from the captured target, the next hasChanged returns true and
\* re-targets to that floored position.
C2_SignalsBlockDeparture ==
  [][FollowCall =>
       LET id == ret'.goal
           g == goals[id]
           p == floored(entities[g.entity])
       IN  NormSq(Minus(p, Target(g))) > g.rangeSq =>
             /\ ret'.result = TRUE
             /\ Target(goals'[id]) = p]_vars

C2_Witness ==
  /\ ret.op = "hasChanged"
  /\ goals[ret.goal].tag = "GoalFollow"
  /\ ret.result = TRUE
  /\ goals[ret.goal].rangeSq = 1
  /\ entities[goals[ret.goal].entity] = <<-2, 1, 2>>
  /\ Target(goals[ret.goal]) = <<-1, 0, 1>>

\* ============================================================ SpecComposite
\* Two GoalFollow goals, each on its own entity, pushed into one composite.
InitComposite ==
  /\ \E p1 \in Halves, p2 \in Halves, range \in 0..MaxRange,
        c \in {GoalCompositeAny, GoalCompositeAll} :
       /\ entities = << <<p1, 0, 0>>, <<p2, 0, 0>> >>
       /\ goals = << GoalFollow(1, <<p1, 0, 0>>, range),
                     GoalFollow(2, <<p2, 0, 0>>, range), c >>
  /\ options = <<>>
  /\ world = {}
  /\ ret = None

MoveAlongX ==
  /\ ret.op = "none"
  /\ \E e \in DOMAIN entities, d \in {-1, 1} : MoveEntity(e, 1, d)

PushAny ==
  /\ ret.op = "none"
  /\ \E c \in Ids, id \in Ids : Push(c, id)

NextComposite == MoveAlongX \/ PushAny \/ PollAny \/ Return

SpecComposite == InitComposite /\ [][NextComposite]_vars

\* C9: one hasChanged call on a composite re-targets every GoalFollow child
\* whose entity has left its radius: when the call has returned, every such
\* child's captured target is within rangeSq of its entity's floored position,
\* and the next call on the composite, with no movement in between, returns
\* false.
C9_CompositeReportsOnce ==
  (ret.op = "hasChanged" /\ goals[ret.goal].tag \in Composite) =>
    /\ \A i \in 1..Len(goals[ret.goal].goals) :
         LET g == goals[goals[ret.goal].goals[i]]
         IN  g.tag = "GoalFollow" =>
               NormSq(Minus(Target(g), floored(entities[g.entity]))) <= g.rangeSq
    /\ hasChanged(goals, entities, ret.goal).result = FALSE

\* =========================================================== SpecPositional
\* One positional goal, built from any coordinates, asked about every node.
TargetHalves == -MaxTarget..MaxTarget

NoHits == <<>>

InitPositional ==
  /\ \E x \in TargetHalves, y \in TargetHalves, z \in TargetHalves,
        range \in 0..MaxRange :
       goals \in { <<GoalBlock(x, y, z)>>, <<GoalNear(x, y, z, range)>>,
                   <<GoalXZ(x, z)>>, <<GoalY(y)>>, <<GoalGetToBlock(x, y, z)>> }
  /\ entities = <<>>
  /\ options = <<>>
  /\ world = {}
  /\ ret = None

EstimateAny ==
  /\ ret.op = "none"
  /\ \E id \in Ids, node \in Nodes : Heuristic(id, node)

TestAny ==
  /\ ret.op = "none"
  /\ \E id \in Ids, node \in Nodes : IsEnd(id, node, NoHits)

NextPositional == EstimateAny \/ TestAny \/ PollAny \/ Return

SpecPositional == InitPositional /\ [][NextPositional]_vars

\* C4 as stated: isEnd of a GoalGetToBlock is true exactly at the 6 nodes that
\* share a face with the target cell.
C4_SixFaceNeighbours ==
  (ret.op = "isEnd" /\ goals[ret.goal].tag = "GoalGetToBlock") =>
    LET d == Minus(ret.node, Target(goals[ret.goal]))
    IN  ret.result <=> (Abs(d[1]) + Abs(d[2]) + Abs(d[3]) = 1)

\* the offsets from the target at which GoalGetToBlock.isEnd holds
GetToBlockOffsets ==
  { <<1, 0, 0>>, <<-1, 0, 0>>, <<0, 0, 1>>, <<0, 0, -1>>,
    <<1, -1, 0>>, <<-1, -1, 0>>, <<0, -1, 1>>, <<0, -1, -1>>,
    <<0, 1, 0>>, <<0, -2, 0>> }

\* C4 amended: isEnd of a GoalGetToBlock is true for exactly 10 integer nodes:
\* the four horizontal neighbours of the target at the target's level, the four
\* one level below it, the cell above the target and the cell two below it; it
\* is false for the target cell, for the cell directly below it and for every
\* other node.
C4_TenAdjustedNeighbours ==
  /\ Cardinality(GetToBlockOffsets) = 10
  /\ (ret.op = "isEnd" /\ goals[ret.goal].tag = "GoalGetToBlock") =>
       (ret.result <=> Minus(ret.node, Target(goals[ret.goal])) \in GetToBlockOffsets)

C4_Witness ==
  /\ ret.op = "isEnd"
  /\ goals[ret.goal].tag = "GoalGetToBlock"
  /\ Target(goals[ret.goal]) = <<0, 0, 0>>
  /\ ret.node = <<0, -2, 0>>
  /\ ret.result = TRUE

\* C8: the heuristic never overestimates the remaining cost; at a node where
\* isEnd holds the remaining cost is zero, so the heuristic is 0 there.
C8_ZeroAtEnd ==
  (ret.op = "isEnd" /\ ret.result = TRUE
     /\ goals[ret.goal].tag \in Positional \cup {"GoalFollow", "GoalPlaceBlock"}) =>
    heuristic(goals, ret.goal, ret.node) = Num(0, 0)

\* ================================================================== SpecAll
\* A GoalCompositeAll filled by push from a GoalBlock, a GoalNear and a
\* GoalInvert of one of them, asked for its estimate at every node.
InitAll ==
  /\ \E x \in TargetHalves, y \in TargetHalves, z \in TargetHalves,
        range \in 0..MaxRange, inner \in 1..2 :
       goals = << GoalBlock(x, y, z), GoalNear(z, x, y, range),
                  GoalInvert(inner), GoalCompositeAll >>
  /\ entities = <<>>
  /\ options = <<>>
  /\ world = {}
  /\ ret = None

NextAll == PushAny \/ EstimateAny \/ Return

SpecAll == InitAll /\ [][NextAll]_vars

\* C3: the heuristic of a GoalCompositeAll with at least one child is the
\* maximum of its children's heuristics at that node: it is the value of some
\* child and no child's value is greater.
C3_AllIsMax ==
  (ret.op = "heuristic" /\ goals[ret.goal].tag = "GoalCompositeAll"
     /\ Len(goals[ret.goal].goals) > 0) =>
    LET gs == goals[ret.goal].goals
    IN  /\ \E i \in 1..Len(gs) : ret.result = heuristic(goals, gs[i], ret.node)
        /\ \A i \in 1..Len(gs) : ~Less(ret.result, heuristic(goals, gs[i], ret.node))

\* =============================================================== SpecFacing
\* The caller builds placement goals from one options object and asks them
\* about direction vectors.
Down == <<0, -1, 0>>

East == <<1, 0, 0>>

\* new GoalPlaceBlock(pos, world, options[o]): the constructor writes its
\* defaults and the facing index into the caller's options object
NewGoalPlaceBlock(pos, o) ==
  /\ ret.op = "none"
  /\ Len(goals) < MaxGoals
  /\ LET opt == ConstructorOptions(options[o])
     IN  /\ options' = [options EXCEPT ![o] = opt]
         /\ goals' = Append(goals, GoalPlaceBlock(pos, world, o, opt))
  /\ UNCHANGED <<entities, world, ret>>

\* goal.checkFacing(dir)
CheckFacing(id, dir) ==
  /\ ret.op = "none"
  /\ goals[id].tag = "GoalPlaceBlock"
  /\ ret' = [op |-> "checkFacing", goal |-> id, node |-> dir, hits |-> <<>>,
             result |-> checkFacing(options[goals[id].options], dir)]
  /\ UNCHANGED <<entities, goals, options, world>>

Facings ==
  {Undefined, Str("sideways")} \cup {Str(FacingNames[i]) : i \in 1..Len(FacingNames)}

InitFacing ==
  /\ \E facing \in Facings, facing3D \in BOOLEAN :
       options = << Options(0, "absent", FALSE, <<>>, facing, facing3D) >>
  /\ goals = <<>>
  /\ entities = <<>>
  /\ world = {Down, East}
  /\ ret = None

Dirs == (-MaxDir..MaxDir) \X (-MaxDir..MaxDir) \X (-MaxDir..MaxDir)

BuildAny ==
  /\ ret.op = "none"
  /\ \E o \in DOMAIN options : NewGoalPlaceBlock(<<0, 0, 0>>, o)

FaceAny ==
  /\ ret.op = "none"
  /\ \E id \in Ids, dir \in Dirs : CheckFacing(id, dir)

NextFacing == BuildAny \/ FaceAny \/ Return

SpecFacing == InitFacing /\ [][NextFacing]_vars

\* the unit vector of a compass facing: north is -Z, east +X, south +Z, west -X
Compass(f) ==
  CASE f = 0 -> <<0, 0, -1>>
    [] f = 1 -> <<1, 0, 0>>
    [] f = 2 -> <<0, 0, 1>>
    [] f = 3 -> <<-1, 0, 0>>

\* the bearing of the horizontal vector (x, z) is within 45 degrees of facing f
Within45(f, x, z) ==
  LET c == Compass(f)
      along == x * c[1] + z * c[3]
      across == x * c[3] - z * c[1]
  IN  along > Abs(across)

\* C6: with facing north, east, south or west and facing3D false, checkFacing
\* accepts a horizontal vector whose bearing is within 45 degrees of that
\* compass direction (north being -Z, which vectorToDirection maps to face 2),
\* so it accepts the facing's own unit vector and rejects the other three.
C6_FacingIsCompass ==
  (ret.op = "checkFacing" /\ ~options[goals[ret.goal].options].facing3D
     /\ options[goals[ret.goal].options].facing.n \in 0..3) =>
    LET f == options[goals[ret.goal].options].facing.n
        dir == ret.node
    IN  /\ vectorToDirection(Compass(0)) = 2
        /\ (dir[2] = 0 /\ Within45(f, dir[1], dir[3])) => ret.result
        /\ (\E k \in 0..3 : k # f /\ dir = Compass(k)) => ~ret.result

\* C10: building a goal leaves the options object unchanged in meaning: a goal
\* built from an options object that an earlier goal was built from enforces
\* the facing constraint the earlier goal enforced, so checkFacing gives the
\* same result on both for every direction vector.
C10_SameFacingOnBoth ==
  [][\A o \in DOMAIN options :
       (options'[o] # options[o] /\ \E id \in Ids : goals[id].options = o) =>
         \A dir \in Dirs : checkFacing(options'[o], dir) = checkFacing(options[o], dir)]_vars

\* ================================================================ SpecPlace
\* One placement goal at the origin, built from a range of options in a
\* range of worlds, asked about eye positions; world.raycast may answer
\* anything.
West == <<-1, 0, 0>>

\* goal.getFaceAndRef(headPos)
GetFaceAndRef(id, node, hits) ==
  /\ ret.op = "none"
  /\ goals[id].tag = "GoalPlaceBlock"
  /\ ret' = [op |-> "getFaceAndRef", goal |-> id, node |-> node, hits |-> hits,
             result |-> getFaceAndRef(options[goals[id].options], goals[id].facesPos,
                                      HeadPos(node), hits, 1)]
  /\ UNCHANGED <<entities, goals, options, world>>

InitPlace ==
  /\ world \in { {Down}, {Down, East} }
  /\ \E range \in {0, 2}, LOS \in {"absent", "false"}, hasFaces \in BOOLEAN,
        facing \in {Undefined, Str("north"), Str("down")}, facing3D \in BOOLEAN :
       LET opt == ConstructorOptions(
                    Options(range, LOS, hasFaces, <<East, Down>>, facing, facing3D))
       IN  /\ options = <<opt>>
           /\ goals = << GoalPlaceBlock(<<0, 0, 0>>, world, 1, opt) >>
  /\ entities = <<>>
  /\ ret = None

EyeNodes == (-MaxEye..MaxEye) \X (-MaxEye..MaxEye) \X (-MaxEye..MaxEye)

\* the blocks a ray cast near goal g may report: the reference blocks of its
\* candidates and the block on the far side of the goal's cell
HitPositions(g) == {g.facesPos[i].ref : i \in 1..Len(g.facesPos)} \cup {West}

Hits(g) ==
  {NoHit} \cup {[hit |-> TRUE, position |-> p, face |-> f] : p \in HitPositions(g), f \in 0..5}

\* getFaceAndRef casts a ray for candidate c only when it is in range, faced,
\* and line of sight is asked for
Asked(opt, c, headPos) ==
  /\ NormSq(Minus(c.to, headPos)) <= 100 * opt.range * opt.range
  /\ checkFacing(opt, Minus(c.to, headPos))
  /\ opt.LOS = "true"

\* one raycast answer per candidate; a ray that is never cast answers nothing
HitVectors(id, node) ==
  LET g == goals[id]
      opt == options[g.options]
  IN  IF g.tag # "GoalPlaceBlock" THEN {NoHits}
      ELSE {hv \in [1..Len(g.facesPos) -> Hits(g)] :
              \A i \in 1..Len(g.facesPos) :
                ~Asked(opt, g.facesPos[i], HeadPos(node)) => hv[i] = NoHit}

AimAny ==
  /\ ret.op = "none"
  /\ \E id \in Ids, node \in EyeNodes : \E hits \in HitVectors(id, node) :
       GetFaceAndRef(id, node, hits)

NextPlace == AimAny \/ Return

SpecPlace == InitPlace /\ [][NextPlace]_vars

\* the face index of the face opposite to an axis direction
OppositeFace(dir) ==
  CASE dir = <<0, -1, 0>> -> 1
    [] dir = <<0, 1, 0>> -> 0
    [] dir = <<0, 0, -1>> -> 3
    [] dir = <<0, 0, 1>> -> 2
    [] dir = <<-1, 0, 0>> -> 5
    [] dir = <<1, 0, 0>> -> 4

\* candidate i of the call in ret passes the range, facing and sight tests
Accepted(i) ==
  LET g == goals[ret.goal]
      opt == options[g.options]
      c == g.facesPos[i]
      dir == Minus(c.to, HeadPos(ret.node))
      block == ret.hits[i]
  IN  /\ NormSq(dir) <= 100 * opt.range * opt.range
      /\ checkFacing(opt, dir)
      /\ \/ opt.LOS = "false"
         \/ block.hit /\ block.position = c.ref /\ block.face = OppositeFace(c.dir)

\* C5: getFaceAndRef returns the first candidate, in the order of facesPos,
\* that is within range, passes checkFacing and, when LOS is on, whose raycast
\* hit is the candidate's reference block on the face opposite to its dir; it
\* returns null exactly when no candidate does.
C5_FirstAcceptedCandidate ==
  ret.op = "getFaceAndRef" =>
    LET cands == goals[ret.goal].facesPos
        ok == {i \in 1..Len(cands) : Accepted(i)}
    IN  IF ok = {} THEN ret.result = Null
        ELSE LET first == CHOOSE i \in ok : \A j \in ok : i <= j
             IN  ret.result = Found(cands[first])

\* line of sight is on, the first candidate is in range and faced but its ray
\* hits the right block on a wrong face, and the second candidate is returned
C5_Witness ==
  /\ ret.op = "getFaceAndRef"
  /\ options[goals[ret.goal].options].LOS = "true"
  /\ Len(goals[ret.goal].facesPos) = 2
  /\ Asked(options[goals[ret.goal].options], goals[ret.goal].facesPos[1], HeadPos(ret.node))
  /\ ret.hits[1].hit
  /\ ret.hits[1].position = goals[ret.goal].facesPos[1].ref
  /\ ret.hits[1].face # OppositeFace(goals[ret.goal].facesPos[1].dir)
  /\ ret.result = Found(goals[ret.goal].facesPos[2])

\* ===================================================================== Spec
\* A tree that holds every goal variant: a GoalCompositeAll over a GoalInvert,
\* a GoalCompositeAny and a placement goal, with the positional goals and a
\* GoalFollow below them.  The search engine estimates, tests and polls any
\* goal of the tree while the followed entity moves.
WithGoals(c, gs) == [c EXCEPT !.goals = gs]

InitTree ==
  /\ world = {Down}
  /\ \E p \in Halves, range \in 0..MaxRange, inner \in {2, 6}, LOS \in {"absent", "false"} :
       LET opt == ConstructorOptions(Options(0, LOS, FALSE, <<>>, Str("south"), FALSE))
       IN  /\ entities = << <<p, 0, 0>> >>
           /\ options = <<opt>>
           /\ goals = << GoalBlock(1, 0, -1),
                         GoalNear(-1, 1, 0, range),
                         GoalXZ(2, -2),
                         GoalY(-1),
                         GoalGetToBlock(0, 1, 2),
                         GoalFollow(1, <<p, 0, 0>>, range),
                         GoalPlaceBlock(<<0, 0, 0>>, world, 1, opt),
                         GoalInvert(inner),
                         WithGoals(GoalCompositeAny, <<6, 1, 3>>),
                         WithGoals(GoalCompositeAll, <<8, 9, 7, 4, 5>>) >>
  /\ ret = None

\* goal id is, or holds, a placement goal
RECURSIVE Reaches(_, _)
Reaches(h, id) ==
  \/ h[id].tag = "GoalPlaceBlock"
  \/ h[id].tag = "GoalInvert" /\ Reaches(h, h[id].goal)
  \/ h[id].tag \in Composite /\ \E i \in 1..Len(h[id].goals) : Reaches(h, h[id].goals[i])

\* the raycast answers a call of isEnd on goal id can meet (the tree holds one
\* placement goal)
TreeHitVectors(id, node) ==
  IF Reaches(goals, id)
  THEN HitVectors(CHOOSE i \in Ids : goals[i].tag = "GoalPlaceBlock", node)
  ELSE {NoHits}

EstimateTree ==
  /\ ret.op = "none"
  /\ \E id \in Ids, node \in EyeNodes : Heuristic(id, node)

TestTree ==
  /\ ret.op = "none"
  /\ \E id \in Ids, node \in EyeNodes : \E hits \in TreeHitVectors(id, node) :
       IsEnd(id, node, hits)

Next == MoveAlongX \/ EstimateTree \/ TestTree \/ PollAny \/ Return

Spec == InitTree /\ [][Next]_vars

\* C7: heuristic and isEnd change no goal's stored state (coordinates,
\* rangeSq, children, placement candidates, options), so evaluating the same
\* node again gives the same result; hasChanged of a positional goal returns
\* false; and the only state that changes is the captured target of a
\* GoalFollow, moved to its entity's floored position inside a hasChanged call
\* that returns true.
C7_OnlyFollowRetargets ==
  [][/\ options' = options
     /\ ret'.op \in {"heuristic", "isEnd"} => goals' = goals
     /\ goals' # goals => (ret.op = "none" /\ ret'.op = "hasChanged" /\ ret'.result = TRUE)
     /\ \A id \in Ids :
          goals'[id] # goals[id] =>
            /\ goals[id].tag = "GoalFollow"
            /\ goals'[id] =
                 [goals[id] EXCEPT !.x = Floor(entities[goals[id].entity][1]),
                                   !.y = Floor(entities[goals[id].entity][2]),
                                   !.z = Floor(entities[goals[id].entity][3])]
     /\ (ret.op = "none" /\ ret'.op = "hasChanged" /\ goals[ret'.goal].tag \in Positional)
          => ret'.result = FALSE
     /\ (ret.op = "none" /\ ret'.op = "heuristic")
          => heuristic(goals', ret'.goal, ret'.node) = ret'.result
     /\ (ret.op = "none" /\ ret'.op = "isEnd")
          => isEnd(goals', options', ret'.goal, ret'.node, ret'.hits) = ret'.result]_vars

\* the composite at the root was polled, returned true, and the GoalFollow
\* below it was re-targeted away from where it was built
C7_Witness ==
  /\ ret.op = "hasChanged"
  /\ goals[ret.goal].tag = "GoalCompositeAll"
  /\ ret.result = TRUE
  /\ goals[6].tag = "GoalFollow"
  /\ goals[6].x = 1
  /\ entities[1] = <<2, 0, 0>>

====
